---- MODULE Spec2Model ----
(***************************************************************************)
(* Model of the two numeric components of the notebook                     *)
(* 3-features_keypoints/features_keypoints.ipynb:                          *)
(*   - the Harris corner scorer (Part 1, notebook lines 68-87), and        *)
(*   - the HoG descriptor builder (Part 2, notebook lines 118-156 and      *)
(*     182-194).                                                           *)
(* Each component is a straight-line program over image arrays; the model  *)
(* follows it statement by statement with a program counter.               *)
(*                                                                         *)
(* Numbers.  The notebook computes in float64.  The model keeps every      *)
(* quantity exact: intensities and gradient magnitudes are small naturals, *)
(* the Gaussian window is the integer kernel GaussK / 17 (per axis), the   *)
(* corner response is kept multiplied by McScale, and a block descriptor   *)
(* entry is the fraction <<numerator, denominator>>.                       *)
(*                                                                         *)
(* Inputs.  The corner scorer starts from the grey image.  The HoG builder *)
(* starts from the result of cv2.cartToPolar (line 138): a magnitude and   *)
(* an orientation per pixel, the orientation a whole number of angle       *)
(* units in [0, 2*pi).                                                     *)
(***************************************************************************)
EXTENDS Integers, Sequences, FiniteSets, TLC

(***************************************************************************)
(* Bounds of the model.                                                    *)
(***************************************************************************)
CornerMaxPixels == 9     \* corner scorer: images of at most this many pixels

HogMaxPixels == 6        \* HoG builder: images of at most this many pixels
MaxLit == 2              \* HoG builder: pixels with a non-zero gradient

Intensity == {0, 1}      \* grey levels an image pixel takes
Magnitudes == {1}        \* non-zero gradient magnitudes a pixel takes
CellSizes == {1, 2}      \* cell_size[0], cell_size[1]   (notebook: 8)
BlockSizes == {1, 2}     \* block_size[0], block_size[1] (notebook: 3)
BinCounts == {1, 2}      \* nbins                        (notebook: 9)
\* An orientation is a whole number a of angle units, standing for the angle
\* a * 2*pi / AngleUnits(n): two units to the bin width of an n-bin histogram.
AngleUnits(n) == 2 * n
Thresholds == {-50, 0, 50}  \* corner score thresholds tried (notebook: 5e7)

(***************************************************************************)
(* Program constants.                                                      *)
(***************************************************************************)
sobel_ksize == 5                 \* cv2.Sobel(..., ksize=5)
ksize == <<5, 5>>                \* size of the window w(u, v)
kappa_den == 20                  \* kappa = 0.05 = 1 / kappa_den

\* cv2.getDerivKernels for ksize = 5: derivative and smoothing taps.
DerivK == <<-1, -2, 0, 2, 1>>
SmoothK == <<1, 4, 6, 4, 1>>
\* cv2.getGaussianKernel(5, sigma = 1.5) is (0.120, 0.234, 0.292, 0.234,
\* 0.120); the model uses the integer kernel below divided by 17
\* (0.118, 0.235, 0.294, 0.235, 0.118).
GaussK == <<2, 4, 5, 4, 2>>

RECURSIVE SeqSum(_)
SeqSum(s) == IF s = <<>> THEN 0 ELSE Head(s) + SeqSum(Tail(s))

GaussSum == SeqSum(GaussK)
\* Mc of the model = McScale * Mc of the notebook.
McScale == kappa_den * GaussSum * GaussSum * GaussSum * GaussSum

(***************************************************************************)
(* Exact integers beyond 32 bits: <<hi, lo>> stands for hi * Base + lo     *)
(* with 0 <= lo < Base.  The representation is unique, so equality of      *)
(* numbers is equality of pairs.                                           *)
(***************************************************************************)
Base == 2 ^ 15

BigNorm(h, l) == <<h + (l \div Base), l % Base>>
Big(x) == BigNorm(0, x)
Abs(x) == IF x < 0 THEN -x ELSE x
\* product of two naturals below Base * Base
BigMul(x, y) ==
    LET x1 == x \div Base  x0 == x % Base
        y1 == y \div Base  y0 == y % Base
        low == BigNorm(0, x0 * y0)
    IN  <<x1 * y1 * Base + x1 * y0 + x0 * y1 + low[1], low[2]>>
BigSub(a, b) == BigNorm(a[1] - b[1], a[2] - b[2])
BigScale(k, a) ==
    LET low == BigNorm(0, k * a[2]) IN <<k * a[1] + low[1], low[2]>>
BigLess(a, b) == a[1] < b[1] \/ (a[1] = b[1] /\ a[2] < b[2])
BigLeq(a, b) == a = b \/ BigLess(a, b)
BigMax(S) == CHOOSE m \in S : \A x \in S : BigLeq(x, m)

(***************************************************************************)
(* State.                                                                  *)
(***************************************************************************)
VARIABLES
    cpc,         \* corner scorer: position in the notebook cell
    cimg,        \* corner scorer: [shape, px] the grey image read at line 68
    threshold,   \* corner score threshold (in units of the notebook's Mc)
    Ix, Iy,      \* directional gradients
    Sxx, Syy, Sxy,   \* windowed sum-products, times GaussSum^2
    Mc,          \* corner score of every pixel, times McScale
    keypoints    \* set of <<y, x>> returned by np.where

cornerVars == <<cpc, cimg, threshold, Ix, Iy, Sxx, Syy, Sxy, Mc, keypoints>>

VARIABLES
    hpc,            \* HoG builder: position in the two notebook cells
    gimg,           \* [shape, mag, ang]: img.shape and cv2.cartToPolar(Ix, Iy)
    cell_size, block_size, nbins,
    bins,           \* orientation bin of every pixel
    weighted_bins,  \* weight of every pixel
    ncells,         \* shape of the cell grid
    hist,           \* [<<j, i, k>> |-> value] the cell histogram grid
    cell_px,        \* [<<j, i>> |-> pixels of the slice `cell` of cell (j, i)]
    rblocks, cblocks,
    blocks,         \* [<<j, i>> |-> block descriptor, a sequence of fractions]
    block_cells,    \* [<<j, i>> |-> cells of the slice `block` at (j, i)]
    feature_vector

hogVars == <<hpc, gimg, cell_size, block_size, nbins, bins, weighted_bins,
             ncells, hist, cell_px, rblocks, cblocks, blocks, block_cells,
             feature_vector>>
vars == <<cornerVars, hogVars>>

Shapes(maxPixels) ==
    {s \in (1..maxPixels) \X (1..maxPixels) : s[1] * s[2] <= maxPixels}
Grid(shape) == (0..(shape[1] - 1)) \X (0..(shape[2] - 1))

NoArray == <<>>

\* the component that is not running
CornerIdle ==
    /\ cpc = "idle"
    /\ cimg = NoArray /\ threshold = 0
    /\ Ix = NoArray /\ Iy = NoArray
    /\ Sxx = NoArray /\ Syy = NoArray /\ Sxy = NoArray
    /\ Mc = NoArray
    /\ keypoints = {}

HogIdle ==
    /\ hpc = "idle"
    /\ gimg = NoArray
    /\ cell_size = NoArray /\ block_size = NoArray /\ nbins = 0
    /\ bins = NoArray /\ weighted_bins = NoArray
    /\ ncells = NoArray /\ hist = NoArray /\ cell_px = NoArray
    /\ rblocks = 0 /\ cblocks = 0
    /\ blocks = NoArray /\ block_cells = NoArray
    /\ feature_vector = NoArray

(***************************************************************************)
(* The OpenCV operations the corner scorer calls.                          *)
(***************************************************************************)
\* cv::borderInterpolate for BORDER_REFLECT_101, the default border of
\* cv2.Sobel and cv2.GaussianBlur.
RECURSIVE borderInterpolate(_, _)
borderInterpolate(p, len) ==
    IF 0 <= p /\ p < len THEN p
    ELSE IF len = 1 THEN 0
    ELSE IF p < 0 THEN borderInterpolate(-p, len)
    ELSE borderInterpolate(2 * len - 2 - p, len)

Taps == 1..sobel_ksize
Anchor == sobel_ksize \div 2

\* Correlation of array a (of the given shape) with the separable kernel
\* ky (rows) x kx (columns), reflect-101 border.
Filter2D(a, shape, ky, kx) ==
    [p \in Grid(shape) |->
        SeqSum([u \in Taps |->
            ky[u] * SeqSum([v \in Taps |->
                kx[v] * a[<<borderInterpolate(p[1] + u - 1 - Anchor, shape[1]),
                           borderInterpolate(p[2] + v - 1 - Anchor, shape[2])>>]])])]

\* Sobel with the smoothing taps on both axes (no derivative)
SobelSmoothOnly(img, dx, dy) ==
    Filter2D(img.px, img.shape, SmoothK, SmoothK)

\* cv2.Sobel(img, cv2.CV_64F, dx, dy, ksize=5) for (dx, dy) = (1, 0), (0, 1)
Sobel(img, dx, dy) ==
    Filter2D(img.px, img.shape,
             IF dy = 1 THEN DerivK ELSE SmoothK,
             IF dx = 1 THEN DerivK ELSE SmoothK)

\* cv2.GaussianBlur(a, ksize, sigma), times GaussSum^2
GaussianBlur(a, shape) == Filter2D(a, shape, GaussK, GaussK)

\* the pixels under the ksize structuring element anchored at its centre
Window(p, shape) ==
    {q \in Grid(shape) : /\ Abs(q[1] - p[1]) <= ksize[1] \div 2
                         /\ Abs(q[2] - p[2]) <= ksize[2] \div 2}

\* cv2.dilate(Mc, np.ones(ksize)): maximum over the window; pixels outside
\* the image do not take part (the default border value of dilate).
dilate(m, shape) ==
    [p \in Grid(shape) |-> BigMax({m[q] : q \in Window(p, shape)})]

\* line 84: Mc = (Sxx * Syy - Sxy * Sxy) - kappa * (Sxx + Syy)**2
HarrisResponse(sxx, syy, sxy) ==
    BigSub(BigScale(kappa_den,
                    BigSub(BigMul(sxx, syy), BigMul(Abs(sxy), Abs(sxy)))),
           BigMul(sxx + syy, sxx + syy))

\* the threshold in the units of the model's Mc
Scaled(t) == BigScale(t, Big(McScale))

\* the selection with Mc >= threshold in place of Mc > threshold
SelectAtLeast(m, shape, thr) ==
    {p \in Grid(shape) : m[p] = dilate(m, shape)[p] /\ BigLeq(Scaled(thr), m[p])}

\* line 87: np.where((Mc == cv2.dilate(Mc, np.ones(ksize))) & (Mc > threshold))
Select(m, shape, thr) ==
    {p \in Grid(shape) : m[p] = dilate(m, shape)[p] /\ BigLess(Scaled(thr), m[p])}

(***************************************************************************)
(* Corner scorer, notebook lines 68-87.                                    *)
(***************************************************************************)
InitCorner ==
    /\ cpc = "gradients"
    /\ \E shape \in Shapes(CornerMaxPixels) :
         \E px \in [Grid(shape) -> Intensity] :
            cimg = [shape |-> shape, px |-> px]
    /\ threshold \in Thresholds
    /\ Ix = NoArray /\ Iy = NoArray
    /\ Sxx = NoArray /\ Syy = NoArray /\ Sxy = NoArray
    /\ Mc = NoArray
    /\ keypoints = {}
    /\ HogIdle

\* lines 75-76
ComputeGradients ==
    /\ cpc = "gradients"
    /\ Ix' = Sobel(cimg, 1, 0)
    /\ Iy' = Sobel(cimg, 0, 1)
    /\ cpc' = "sums"
    /\ UNCHANGED <<cimg, threshold, Sxx, Syy, Sxy, Mc, keypoints>>
    /\ UNCHANGED hogVars

\* lines 79-81
WindowedSums ==
    /\ cpc = "sums"
    /\ Sxx' = GaussianBlur([p \in Grid(cimg.shape) |-> Ix[p] * Ix[p]], cimg.shape)
    /\ Syy' = GaussianBlur([p \in Grid(cimg.shape) |-> Iy[p] * Iy[p]], cimg.shape)
    /\ Sxy' = GaussianBlur([p \in Grid(cimg.shape) |-> Ix[p] * Iy[p]], cimg.shape)
    /\ cpc' = "score"
    /\ UNCHANGED <<cimg, threshold, Ix, Iy, Mc, keypoints>>
    /\ UNCHANGED hogVars

\* line 84
Score ==
    /\ cpc = "score"
    /\ Mc' = [p \in Grid(cimg.shape) |-> HarrisResponse(Sxx[p], Syy[p], Sxy[p])]
    /\ cpc' = "suppress"
    /\ UNCHANGED <<cimg, threshold, Ix, Iy, Sxx, Syy, Sxy, keypoints>>
    /\ UNCHANGED hogVars

\* line 87
Suppress ==
    /\ cpc = "suppress"
    /\ keypoints' = Select(Mc, cimg.shape, threshold)
    /\ cpc' = "done"
    /\ UNCHANGED <<cimg, threshold, Ix, Iy, Sxx, Syy, Sxy, Mc>>
    /\ UNCHANGED hogVars

NextCorner ==
    \/ ComputeGradients
    \/ WindowedSums
    \/ Score
    \/ Suppress

SpecCorner == InitCorner /\ [][NextCorner]_vars


(***************************************************************************)
(* HoG descriptor builder, notebook lines 118-156 and 182-194.             *)
(***************************************************************************)
RECURSIVE SetSum(_, _)
\* sum of f over the finite set S
SetSum(f, S) ==
    IF S = {} THEN 0
    ELSE LET x == CHOOSE y \in S : TRUE IN f[x] + SetSum(f, S \ {x})

\* a[lo:hi] on an axis of the given length, 0 <= lo
Slice(lo, hi, len) == {x \in 0..(len - 1) : lo <= x /\ x < hi}

\* line 141: bins = np.int64(nbins * ang / (2 * np.pi))
Quantize(n, a) == (n * a) \div AngleUnits(n)

\* line 144: weighted_bins = mag * bins
Weight(m, b) == m * b

\* line 145: ncells = tuple(np.divide(img.shape, cell_size)); the notebook
\* runs under Python 2, where np.divide of integers is floor division.
CellGrid(shape, cs) == <<shape[1] \div cs[1], shape[2] \div cs[2]>>

\* lines 148-149, 151-152: lo = index * size; hi = lo + size + 1
CellHi(lo, size) == lo + size + 1

\* lines 153-154: the pixels of bins[lo_row:hi_row, lo_col:hi_col]
CellSlice(shape, cs, j, i) ==
    Slice(j * cs[1], CellHi(j * cs[1], cs[1]), shape[1])
        \X Slice(i * cs[2], CellHi(i * cs[2], cs[2]), shape[2])

\* line 156: hist[j, i, k] = np.sum(wbins[cell == k])
CellHistogram(b, wb, shape, cs, j, i, k) ==
    SetSum(wb, {p \in CellSlice(shape, cs, j, i) : b[p] = k})

\* lines 145-156: the whole cell histogram grid
HistogramGrid(b, wb, shape, cs, n) ==
    LET nc == CellGrid(shape, cs)
    IN  [c \in (0..(nc[1] - 1)) \X (0..(nc[2] - 1)) \X (0..(n - 1)) |->
            CellHistogram(b, wb, shape, cs, c[1], c[2], c[3])]

\* the block count without the "1 +"
NumBlocksNoLast(n, b) == n - b

\* line 182: 1 + np.subtract(ncells, block_size), per axis
NumBlocks(n, b) == 1 + n - b

\* lines 185, 187: r_offset = j * cell_size[0]; c_offset = i * cell_size[1]
BlockOffset(index, size) == index * size

\* line 188: the cells of hist[r_offset:r_offset+bh, c_offset:c_offset+bw]
BlockSlice(nc, cs, bs, j, i) ==
    Slice(BlockOffset(j, cs[1]), BlockOffset(j, cs[1]) + bs[1], nc[1])
        \X Slice(BlockOffset(i, cs[2]), BlockOffset(i, cs[2]) + bs[2], nc[2])

\* line 189: l1_norm = np.sum(block)
L1Norm(h, cellset, n) ==
    SetSum(h, {<<c[1], c[2], k>> : c \in cellset, k \in 0..(n - 1)})

RECURSIVE Flatten(_, _, _, _, _)
\* block.flatten(): the entries of h over rows x cols x bins in C order;
\* rows and cols are the ascending sequences of the sliced indices.
Flatten(h, rows, cols, allcols, n) ==
    IF rows = <<>> THEN <<>>
    ELSE IF cols = <<>> THEN Flatten(h, Tail(rows), allcols, allcols, n)
    ELSE [k \in 1..n |-> h[<<Head(rows), Head(cols), k - 1>>]]
            \o Flatten(h, rows, Tail(cols), allcols, n)

RECURSIVE Ascending(_)
Ascending(S) ==
    IF S = {} THEN <<>>
    ELSE LET m == CHOOSE x \in S : \A y \in S : x <= y
         IN  <<m>> \o Ascending(S \ {m})

BlockFlat(h, nc, cs, bs, n, j, i) ==
    LET rows == Ascending(Slice(BlockOffset(j, cs[1]), BlockOffset(j, cs[1]) + bs[1], nc[1]))
        cols == Ascending(Slice(BlockOffset(i, cs[2]), BlockOffset(i, cs[2]) + bs[2], nc[2]))
    IN  Flatten(h, rows, cols, cols, n)

\* a row of np.zeros
Zeros(len) == [x \in 1..len |-> <<0, 1>>]

\* line 183: length of one row of blocks
BlockLen(bs, n) == bs[1] * bs[2] * n

\* line 191: blocks[j, i] = block.flatten() / l1_norm.  numpy assigns a
\* vector of the row's length, broadcasts a vector of length 1 and raises
\* ValueError for any other length.
Fits(flat, len) == Len(flat) = len \/ Len(flat) = 1
Normalized(flat, l1, len) ==
    IF Len(flat) = len THEN [x \in 1..len |-> <<flat[x], l1>>]
    ELSE [x \in 1..len |-> <<flat[1], l1>>]

BlockPositions(rb, cb) == (0..(rb - 1)) \X (0..(cb - 1))
\* place of block (j, i) in the loop order of lines 184 and 186
Raster(pos, cb) == pos[1] * cb + pos[2]

\* lines 188-191 at one block position
BlockRow(h, nc, cs, bs, n, pos) ==
    LET flat == BlockFlat(h, nc, cs, bs, n, pos[1], pos[2])
        l1 == L1Norm(h, BlockSlice(nc, cs, bs, pos[1], pos[2]), n)
    IN  IF l1 > 0 THEN Normalized(flat, l1, BlockLen(bs, n))
        ELSE Zeros(BlockLen(bs, n))

\* the block positions at which line 191 raises ValueError
Misfits(h, nc, cs, bs, n, rb, cb) ==
    {pos \in BlockPositions(rb, cb) :
        /\ L1Norm(h, BlockSlice(nc, cs, bs, pos[1], pos[2]), n) > 0
        /\ ~Fits(BlockFlat(h, nc, cs, bs, n, pos[1], pos[2]), BlockLen(bs, n))}

RECURSIVE Concat(_, _, _)
\* line 193: blocks.flatten(), rows of blocks in raster order from index t
Concat(b, t, cb) ==
    IF t >= Cardinality(DOMAIN b) THEN <<>>
    ELSE b[<<t \div cb, t % cb>>] \o Concat(b, t + 1, cb)

\* gradient fields with at most MaxLit pixels of non-zero magnitude;
\* cv2.cartToPolar gives the angle 0 where the magnitude is 0
Fields(shape, n) ==
    LET lit == {L \in SUBSET Grid(shape) : Cardinality(L) <= MaxLit}
        opt == Magnitudes \X (0..(AngleUnits(n) - 1))
    IN  UNION {
          {[mag |-> [p \in Grid(shape) |-> IF p \in L THEN f[p][1] ELSE 0],
            ang |-> [p \in Grid(shape) |-> IF p \in L THEN f[p][2] ELSE 0]]
              : f \in [L -> opt]} : L \in lit}

InitHoG ==
    /\ hpc = "quantize"
    /\ cell_size \in CellSizes \X CellSizes
    /\ block_size \in BlockSizes \X BlockSizes
    /\ nbins \in BinCounts
    /\ \E shape \in Shapes(HogMaxPixels) :
         \E f \in Fields(shape, nbins) :
            gimg = [shape |-> shape, mag |-> f.mag, ang |-> f.ang]
    /\ bins = NoArray /\ weighted_bins = NoArray
    /\ ncells = NoArray /\ hist = NoArray /\ cell_px = NoArray
    /\ rblocks = 0 /\ cblocks = 0
    /\ blocks = NoArray /\ block_cells = NoArray
    /\ feature_vector = NoArray
    /\ CornerIdle

\* lines 141, 144
QuantizeAngles ==
    /\ hpc = "quantize"
    /\ bins' = [p \in Grid(gimg.shape) |-> Quantize(nbins, gimg.ang[p])]
    /\ weighted_bins' =
         [p \in Grid(gimg.shape) |->
             Weight(gimg.mag[p], Quantize(nbins, gimg.ang[p]))]
    /\ hpc' = "cells"
    /\ UNCHANGED <<gimg, cell_size, block_size, nbins, ncells, hist, cell_px,
                   rblocks, cblocks, blocks, block_cells, feature_vector>>
    /\ UNCHANGED cornerVars

\* lines 145-156
CellHistograms ==
    /\ hpc = "cells"
    /\ ncells' = CellGrid(gimg.shape, cell_size)
    /\ hist' = HistogramGrid(bins, weighted_bins, gimg.shape, cell_size, nbins)
    /\ cell_px' = [c \in (0..(ncells'[1] - 1)) \X (0..(ncells'[2] - 1)) |->
                      CellSlice(gimg.shape, cell_size, c[1], c[2])]
    /\ hpc' = "alloc"
    /\ UNCHANGED <<gimg, cell_size, block_size, nbins, bins, weighted_bins,
                   rblocks, cblocks, blocks, block_cells, feature_vector>>
    /\ UNCHANGED cornerVars

\* lines 182-183; np.zeros raises ValueError on a negative dimension
AllocBlocks ==
    /\ hpc = "alloc"
    /\ rblocks' = NumBlocks(ncells[1], block_size[1])
    /\ cblocks' = NumBlocks(ncells[2], block_size[2])
    /\ IF rblocks' < 0 \/ cblocks' < 0
       THEN /\ hpc' = "ValueError"
            /\ UNCHANGED blocks
       ELSE /\ hpc' = "normalize"
            /\ blocks' = [pos \in BlockPositions(rblocks', cblocks') |->
                             Zeros(BlockLen(block_size, nbins))]
    /\ UNCHANGED <<gimg, cell_size, block_size, nbins, bins, weighted_bins,
                   ncells, hist, cell_px, block_cells, feature_vector>>
    /\ UNCHANGED cornerVars

\* lines 184-191: the loop over the block positions; it stops at the first
\* position where the assignment of line 191 raises
NormalizeBlocks ==
    /\ hpc = "normalize"
    /\ LET bad == Misfits(hist, ncells, cell_size, block_size, nbins, rblocks, cblocks)
           stop == IF bad = {} THEN rblocks * cblocks
                   ELSE CHOOSE t \in {Raster(pos, cblocks) : pos \in bad} :
                          \A pos \in bad : t <= Raster(pos, cblocks)
       IN  /\ blocks' = [pos \in BlockPositions(rblocks, cblocks) |->
                           IF Raster(pos, cblocks) < stop
                           THEN BlockRow(hist, ncells, cell_size, block_size, nbins, pos)
                           ELSE blocks[pos]]
           /\ block_cells' =
                [pos \in {q \in BlockPositions(rblocks, cblocks) :
                             Raster(q, cblocks) <= stop} |->
                    BlockSlice(ncells, cell_size, block_size, pos[1], pos[2])]
           /\ hpc' = IF bad = {} THEN "flatten" ELSE "ValueError"
    /\ UNCHANGED <<gimg, cell_size, block_size, nbins, bins, weighted_bins,
                   ncells, hist, cell_px, rblocks, cblocks, feature_vector>>
    /\ UNCHANGED cornerVars

\* line 193
FlattenBlocks ==
    /\ hpc = "flatten"
    /\ feature_vector' = Concat(blocks, 0, cblocks)
    /\ hpc' = "done"
    /\ UNCHANGED <<gimg, cell_size, block_size, nbins, bins, weighted_bins,
                   ncells, hist, cell_px, rblocks, cblocks, blocks, block_cells>>
    /\ UNCHANGED cornerVars

NextHoG ==
    \/ QuantizeAngles
    \/ CellHistograms
    \/ AllocBlocks
    \/ NormalizeBlocks
    \/ FlattenBlocks

SpecHoG == InitHoG /\ [][NextHoG]_vars


(***************************************************************************)
(* Notions the properties are stated in.                                   *)
(***************************************************************************)
HogRunning == hpc # "idle"
ImgH == gimg.shape[1]
ImgW == gimg.shape[2]
\* image dimensions divisible by the cell size
Divisible == ImgH % cell_size[1] = 0 /\ ImgW % cell_size[2] = 0
CellsH == ImgH \div cell_size[1]
CellsW == ImgW \div cell_size[2]
\* a valid configuration: divisible, cell grid at least as large as the block
Valid ==
    /\ Divisible
    /\ CellsH >= block_size[1]
    /\ CellsW >= block_size[2]
HistReady == hpc \in {"alloc", "normalize", "flatten", "done", "ValueError"}
\* the pixels of the non-overlapping cell (j, i)
CellPixels(j, i) ==
    ((j * cell_size[1])..((j + 1) * cell_size[1] - 1))
        \X ((i * cell_size[2])..((i + 1) * cell_size[2] - 1))
\* the cells under the block window at block position (j, i)
BlockWindow(j, i) ==
    (j..(j + block_size[1] - 1)) \X (i..(i + block_size[2] - 1))
WindowTotal(j, i) ==
    SetSum(hist, {<<c[1], c[2], k>> : c \in BlockWindow(j, i), k \in 0..(nbins - 1)})

RECURSIVE GCD(_, _)
GCD(a, b) == IF b = 0 THEN a ELSE GCD(b, a % b)
FracAdd(a, b) ==
    LET n == a[1] * b[2] + b[1] * a[2]
        d == a[2] * b[2]
        g == GCD(n, d)
    IN  <<n \div g, d \div g>>
RECURSIVE FracSum(_)
FracSum(s) == IF s = <<>> THEN <<0, 1>> ELSE FracAdd(Head(s), FracSum(Tail(s)))

\* orientation a turned by m bin widths
Rotated(a, m) == (a + m * (AngleUnits(nbins) \div nbins)) % AngleUnits(nbins)

Uniform == \A p, q \in DOMAIN cimg.px : cimg.px[p] = cimg.px[q]
AllZero(a) == \A p \in DOMAIN a : a[p] = 0

(***************************************************************************)
(* Properties.                                                             *)
(***************************************************************************)

\* C1: every entry hist[j, i, k] of the cell histogram grid is the sum of
\* the gradient magnitudes of the pixels of cell (j, i) whose orientation
\* bin is k; the weight of a pixel is its magnitude, whatever k is.
CellHistogramIsMagnitudeSum ==
    HistReady =>
        \A c \in DOMAIN hist :
            hist[c] = SetSum(gimg.mag,
                             {p \in CellPixels(c[1], c[2]) : bins[p] = c[3]})

\* C2: when the image dimensions are divisible by the cell size, cell
\* (j, i) accumulates exactly the pixels of rows j*cell_h .. (j+1)*cell_h-1
\* and columns i*cell_w .. (i+1)*cell_w-1, and every pixel of the image is
\* accumulated by exactly one cell.
CellsPartitionImage ==
    (HistReady /\ Divisible) =>
        /\ \A c \in DOMAIN cell_px : cell_px[c] = CellPixels(c[1], c[2])
        /\ \A p \in Grid(gimg.shape) :
              Cardinality({c \in DOMAIN cell_px : p \in cell_px[c]}) = 1

\* C3: the block window moves one cell at a time: the descriptor of every
\* block position (j, i) is built from exactly the cells of rows
\* j .. j+block_h-1 and columns i .. i+block_w-1, and the loop visits every
\* position 0 <= j < cells_h-block_h+1, 0 <= i < cells_w-block_w+1.
BlockWindowStepsOneCell ==
    /\ \A pos \in DOMAIN block_cells :
          block_cells[pos] = BlockWindow(pos[1], pos[2])
    /\ hpc \in {"flatten", "done"} =>
          DOMAIN block_cells =
              BlockPositions(CellsH - block_size[1] + 1, CellsW - block_size[2] + 1)

BlockDescriptorSumsToZeroOrOne ==
    (HogRunning /\ Valid /\ hpc = "done") =>
        \A pos \in DOMAIN blocks :
            /\ FracSum(blocks[pos]) \in {<<0, 1>>, <<1, 1>>}
            /\ WindowTotal(pos[1], pos[2]) > 0 => FracSum(blocks[pos]) = <<1, 1>>
            /\ WindowTotal(pos[1], pos[2]) = 0 =>
                  \A x \in 1..Len(blocks[pos]) : blocks[pos][x][1] = 0

KeypointsAreThresholdedLocalMaxima ==
    cpc = "done" =>
        /\ keypoints \subseteq Grid(cimg.shape)
        /\ \A p \in Grid(cimg.shape) :
              /\ p \in keypoints <=>
                    /\ BigLess(Scaled(threshold), Mc[p])
                    /\ \A q \in Window(p, cimg.shape) : BigLeq(Mc[q], Mc[p])
              /\ Mc[p] = Scaled(threshold) => p \notin keypoints

\* C7 witness: with a positive threshold some pixel is returned and some
\* pixel above the threshold is suppressed by a larger neighbour.
CornerSelected ==
    /\ cpc = "done" /\ threshold > 0
    /\ keypoints # {}
    /\ \E p \in Grid(cimg.shape) \ keypoints : BigLess(Scaled(threshold), Mc[p])

\* C8: on an image of uniform intensity both gradient fields are zero
\* everywhere, so the score is zero everywhere, and for any positive
\* threshold the keypoint set is empty.
UniformImageHasNoKeypoints ==
    (cpc # "idle" /\ Uniform) =>
        /\ cpc \in {"sums", "score", "suppress", "done"} => AllZero(Ix) /\ AllZero(Iy)
        /\ cpc \in {"suppress", "done"} => \A p \in DOMAIN Mc : Mc[p] = Big(0)
        /\ (cpc = "done" /\ threshold > 0) => keypoints = {}

\* C8 witness: a uniform image of non-zero intensity and of several rows
\* and columns has been scored against a positive threshold.
UniformImageScored ==
    /\ cpc = "done" /\ Uniform /\ threshold > 0
    /\ cimg.shape[1] >= 2 /\ cimg.shape[2] >= 2
    /\ \A p \in DOMAIN cimg.px : cimg.px[p] > 0

\* C9: turning every pixel's orientation by m bin widths (magnitudes kept)
\* shifts every cell histogram cyclically by m:
\* hist'[j, i, (k + m) mod nbins] = hist[j, i, k].
RotationShiftsHistogram ==
    HistReady =>
        \A m \in 0..(nbins - 1) :
            LET bins2 == [p \in Grid(gimg.shape) |->
                             Quantize(nbins, Rotated(gimg.ang[p], m))]
                wb2 == [p \in Grid(gimg.shape) |-> Weight(gimg.mag[p], bins2[p])]
                hist2 == HistogramGrid(bins2, wb2, gimg.shape, cell_size, nbins)
            IN  \A c \in DOMAIN hist :
                    hist2[<<c[1], c[2], (c[3] + m) % nbins>>] = hist[c]

\* C10: for a valid configuration the slice taken at every block position
\* the loop visits has block_h * block_w cells or a zero total, and the
\* builder does not stop on a shape mismatch.
BlockLoopCompletes ==
    (HogRunning /\ Valid) =>
        /\ hpc # "ValueError"
        /\ \A pos \in DOMAIN block_cells :
              \/ Cardinality(block_cells[pos]) = block_size[1] * block_size[2]
              \/ L1Norm(hist, block_cells[pos], nbins) = 0
====
